---- MODULE Spec2Model ----
(***************************************************************************)
(* Video ingestion and adaptive streaming of KronoLabs_Backend:            *)
(*   utils/video_processor.py  (analysis, tier selection, segmentation)    *)
(*   utils/video_pipeline.py   (orchestration, status map, persistence)    *)
(*   utils/streaming_api.py    (manifest, segment, auto-quality endpoints) *)
(***************************************************************************)
EXTENDS Integers, Sequences, FiniteSets, TLC

\* ------------------------------------------------------------------ bounds

\* Source frame sizes are 160*k x 90*j for k in 1..MaxWidthUnits, j in 1..MaxHeightUnits.
MaxWidthUnits == 24
MaxHeightUnits == 24

\* An uploaded source of the pipeline is 160*k x 90*k for k in 1..MaxSourceScale,
\* lasts 1..MaxDuration seconds, and each encoded segment file holds
\* 1..MaxSegmentBytes bytes.
MaxSourceScale == 3
MaxDuration == 10
MaxSegmentBytes == 2
\* The Range headers tried have at most this many characters; the segment they
\* address has at most MaxSegmentLen bytes.
MaxHeaderLen == 4
MaxSegmentLen == 3
\* The clock of the status map runs over the hours 0..MaxClock.
MaxClock == 4
\* process_video_background is called again for a video id at most MaxReruns times.
MaxReruns == 1
\* The segmenter is run on sources of up to MaxShortCount segments and on the
\* longest sources, of up to MaxSegmentCount segments.
MaxShortCount == 12
MaxSegmentCount == 1001

\* ------------------------------------------------------- program constants

\* VideoProcessor.SEGMENT_DURATION
SEGMENT_DURATION == 4

\* The value dict.get(q, 999) gives a quality outside QUALITY_PRIORITY.
UnknownPriority == 999

\* QUALITY_PRESETS in dict (insertion) order.
PresetOrder == <<"144p", "240p", "360p", "480p", "720p", "1080p", "1440p", "2160p">>

Qualities == {PresetOrder[i] : i \in 1..Len(PresetOrder)}

\* QUALITY_PRESETS[q]["resolution"], "WxH" split at 'x' and converted with int.
PresetResolution(q) ==
    CASE q = "144p"  -> <<256, 144>>
      [] q = "240p"  -> <<426, 240>>
      [] q = "360p"  -> <<640, 360>>
      [] q = "480p"  -> <<854, 480>>
      [] q = "720p"  -> <<1280, 720>>
      [] q = "1080p" -> <<1920, 1080>>
      [] q = "1440p" -> <<2560, 1440>>
      [] q = "2160p" -> <<3840, 2160>>

TargetPixels(q) == PresetResolution(q)[1] * PresetResolution(q)[2]

\* AdaptiveStreamingService.QUALITY_PRIORITY.get(q, 999): lower number = higher quality.
QualityPriority(q) ==
    CASE q = "2160p" -> 0
      [] q = "1440p" -> 1
      [] q = "1080p" -> 2
      [] q = "720p"  -> 3
      [] q = "480p"  -> 4
      [] q = "360p"  -> 5
      [] q = "240p"  -> 6
      [] q = "144p"  -> 7
      [] OTHER       -> UnknownPriority

\* ---------------------------------------------------------------- helpers

SeqToSet(s) == {s[i] : i \in 1..Len(s)}

Prefix(s, k) == SubSeq(s, 1, k)

\* The first element of s that satisfies Test, or none when there is none
\* (a Python for-loop that returns at the first hit and otherwise falls through).
FirstWhere(s, Test(_), none) ==
    LET hits == {i \in 1..Len(s) : Test(s[i])}
    IN  IF hits = {} THEN none
        ELSE s[CHOOSE i \in hits : \A j \in hits : i <= j]

\* ------------------------------------------------------------------- state

VARIABLES
    \* Source Analyzer, on its own
    source,               \* [width, height] handed to _determine_optimal_qualities
    optimal,              \* its result, <<>> before the call
    \* Processing Pipeline: one upload
    upload,               \* the uploaded source and its metadata
    entry,                \* "complete": process_video_complete, "background": process_video_background
    pc,                   \* position of the running pipeline function
    tier,                 \* i of `for i, quality in enumerate(optimal_qualities)`
    optimal_qualities,    \* the list that loop runs over
    segments,             \* the list _process_quality_with_segments returned last
    new_video,            \* the local new_video: "unbound", "pending" (in the session) or "transient"
    video_id,             \* the local video_id, "" while it is not bound
    session,              \* the rows as the pipeline's Session sees them (flushed, uncommitted)
    db,                   \* the committed rows, what every other session reads
    processing_status,    \* VideoProcessingPipeline.processing_status, the in-memory status map
    transcode_log,        \* history: the encoder's outcome per tier, in order
    \* AdaptiveStreamingService.detect_optimal_quality, on its own
    available_qualities,  \* the video's tiers, in row order
    user_agent,           \* the User-Agent header, as its words
    detections,           \* the last two calls: [bandwidth_hint, recommended]
    \* Adaptive Streaming Server
    response,             \* the last request served and the answer to it
    \* The process that hosts the pipeline object
    clock,                \* datetime.utcnow(), in hours
    runs,                 \* how often process_video_background was called again for the video id
    max_age_hours,        \* the argument of the last cleanup_old_status call, <<>> before one
    other                 \* a second call of process_video_background for the same video id

varsAnalyzer == <<source, optimal>>

varsAuto == <<available_qualities, user_agent, detections>>

varsStream == <<response>>

varsHost == <<clock, runs, max_age_hours, other>>

varsPipeline == <<upload, entry, pc, tier, optimal_qualities, segments, new_video, video_id,
                  session, db, processing_status, transcode_log>>

\* What the pipeline's steps leave alone.
notPipeline == <<varsAnalyzer, varsAuto, varsStream, varsHost>>

vars == <<varsAnalyzer, varsPipeline, varsAuto, varsStream, varsHost>>

\* ------------------------------------------------------------ Data model

Users == {"u1", "u2"}

\* The id (uuid4) the one uploaded Video gets.
TheVideoId == "v1"

EmptyStore == [videos |-> {}, qualities |-> {}, segments |-> {}]

\* generate_optimized_thumbnail: the frame at one second as JPEG bytes in the
\* sizes 320x180, 480x270 and 640x360.
GeneratedThumbnails ==
    <<[thumbnail_data |-> <<1>>], [thumbnail_data |-> <<1, 1>>],
      [thumbnail_data |-> <<1, 1, 1>>]>>

\* models.social_models.Video, the columns the pipeline and the streaming server read.
VideoRow(id, user_id, is_public, duration, status) ==
    [id |-> id, user_id |-> user_id, is_public |-> is_public, duration |-> duration,
     thumbnail_small_data  |-> GeneratedThumbnails[1].thumbnail_data,
     thumbnail_medium_data |-> GeneratedThumbnails[2].thumbnail_data,
     thumbnail_large_data  |-> GeneratedThumbnails[3].thumbnail_data,
     processing_status |-> status]

\* A fresh primary key among `rows`.
NextId(rows) == Cardinality(rows) + 1

\* The number of segments taken for their total size.
CountSizes(segs) == Len(segs)

\* sum(seg['segment_size'] for seg in segments)
RECURSIVE SumSizes(_)
SumSizes(segs) == IF segs = <<>> THEN 0 ELSE Head(segs).segment_size + SumSizes(Tail(segs))

\* VideoQuality(...) as the pipeline builds it for one tier.
QualityRow(id, vid, quality, segs) ==
    [id |-> id, video_id |-> vid, quality |-> quality,
     resolution |-> PresetResolution(quality),
     segment_duration |-> SEGMENT_DURATION,
     total_segments |-> Len(segs),
     total_size |-> SumSizes(segs)]

\* VideoSegment(...) as the pipeline builds it from one segment dictionary.
SegmentRow(id, quality_id, segment_data) ==
    [id |-> id, video_quality_id |-> quality_id,
     segment_index |-> segment_data.segment_index,
     segment_data  |-> segment_data.segment_data,
     segment_size  |-> segment_data.segment_size,
     duration      |-> segment_data.duration,
     start_time    |-> segment_data.segment_index * SEGMENT_DURATION,
     end_time      |-> (segment_data.segment_index + 1) * SEGMENT_DURATION]

\* db.add(video_quality); db.flush(); db.add(video_segment) for every segment.
AddTier(store, vid, quality, segs) ==
    LET qid == NextId(store.qualities)
        base == Cardinality(store.segments)
    IN  [store EXCEPT
            !.qualities = @ \cup {QualityRow(qid, vid, quality, segs)},
            !.segments  = @ \cup {SegmentRow(base + k, qid, segs[k]) : k \in 1..Len(segs)}]

\* The assignment to processing_status left out.
KeepVideoStatus(store, vid, status) == store

\* video.processing_status = status, on the rows with that id.
SetVideoStatus(store, vid, status) ==
    [store EXCEPT !.videos =
        {IF v.id = vid THEN [v EXCEPT !.processing_status = status] ELSE v : v \in @}]

HasVideo(store, vid) == \E v \in store.videos : v.id = vid

\* ------------------------------------------------------------- Status map

\* The entry process_video_complete stores under the new video id.
NewStatusEntry(total) ==
    [status |-> "processing", progress |-> 0, qualities_completed |-> <<>>,
     total_qualities |-> total, end_time |-> <<>>]

\* The share of the tiers still to do.
TierProgressRemaining(i, n) == ((n - i) * 100) \div n

\* self.processing_status[video_id].update({...}) of the loop head.
\* int((i / n) * 100)
TierProgress(i, n) == (i * 100) \div n

UpdateProgress(map, vid, i, n) ==
    [map EXCEPT ![vid].progress = TierProgress(i, n)]

UpdateCompleted(map, vid) ==
    [map EXCEPT ![vid].status = "completed", ![vid].progress = 100,
                ![vid].end_time = <<clock>>]

UpdateFailed(map, vid) ==
    [map EXCEPT ![vid].status = "failed", ![vid].end_time = <<clock>>]

NoStatus == [v \in {} |-> NewStatusEntry(0)]

\* get_processing_status(video_id)["status"]
GetProcessingStatus(map, vid) ==
    IF vid \notin DOMAIN map THEN "unknown" ELSE map[vid].status

\* --------------------------------------------------------- Source Analyzer

\* The comparison made strict: a tier whose frame equals the source's is left out.
DetermineOptimalQualitiesStrict(width, height) ==
    LET source_pixels == width * height
        selected == SelectSeq(PresetOrder, LAMBDA q : TargetPixels(q) < source_pixels)
    IN  IF selected = <<>> THEN <<"360p">> ELSE selected

\* VideoProcessor._determine_optimal_qualities
DetermineOptimalQualities(width, height) ==
    LET source_pixels == width * height
        selected == SelectSeq(PresetOrder, LAMBDA q : TargetPixels(q) <= source_pixels)
    IN  IF selected = <<>> THEN <<"360p">> ELSE selected

\* ------------------------------------------------------- Transcode Engine

\* The encoder (ffmpeg -f segment -segment_time 4) cuts a source of `duration`
\* seconds into ceil(duration / 4) files, numbered from 0 in playback order.
EncoderSegmentCount(duration) ==
    (duration + SEGMENT_DURATION - 1) \div SEGMENT_DURATION

\* The name the pattern segment_<quality>_%03d.mp4 gives file k: its decimal
\* digits, zero-padded to three (more digits when k >= 1000).
RECURSIVE Digits(_)
Digits(k) == IF k < 10 THEN <<k>> ELSE Append(Digits(k \div 10), k % 10)

SegmentFileName(k) ==
    LET d == Digits(k)
    IN  IF Len(d) >= 3 THEN d
        ELSE IF Len(d) = 2 THEN <<0>> \o d ELSE <<0, 0>> \o d

\* Python's str comparison on the digit strings.
RECURSIVE NameLess(_, _)
NameLess(a, b) ==
    IF a = <<>> THEN b # <<>>
    ELSE IF b = <<>> THEN FALSE
    ELSE IF Head(a) # Head(b) THEN Head(a) < Head(b)
    ELSE NameLess(Tail(a), Tail(b))

\* sorted(os.listdir(temp_dir)) restricted to the tier's segment files: every
\* file stands at the place given by the number of files with a smaller name.
SortedFiles(files) ==
    LET placed == {<<Cardinality({g \in files : NameLess(g.name, f.name)}) + 1, f>> :
                      f \in files}
    IN  [i \in 1..Cardinality(files) |-> (CHOOSE p \in placed : p[1] = i)[2]]

\* The files the encoder leaves in temp_dir for one tier: file k holds the k-th
\* segment in playback order, file_sizes[k + 1] bytes that each read k.
EncoderOutput(duration, file_sizes) ==
    {[name |-> SegmentFileName(k), content |-> [j \in 1..file_sizes[k + 1] |-> k]] :
        k \in 0..(EncoderSegmentCount(duration) - 1)}

\* enumerate(segment_files, 1): the indices start at 1.
ProcessQualityWithSegmentsFromOne(quality, files) ==
    LET segment_files == SortedFiles(files)
    IN  [i \in 1..Len(segment_files) |->
            [segment_index |-> i,
             segment_data  |-> segment_files[i].content,
             segment_size  |-> Len(segment_files[i].content),
             duration      |-> SEGMENT_DURATION,
             quality       |-> quality]]

\* VideoProcessor._process_quality_with_segments, after the encoder has exited
\* with status 0: the list of segment dictionaries.
ProcessQualityWithSegments(quality, files) ==
    LET segment_files == SortedFiles(files)
    IN  [i \in 1..Len(segment_files) |->
            [segment_index |-> i - 1,
             segment_data  |-> segment_files[i].content,
             segment_size  |-> Len(segment_files[i].content),
             duration      |-> SEGMENT_DURATION,
             quality       |-> quality]]

\* ---------------------------------------------------- Processing Pipeline

FileSizes(duration) == [1..EncoderSegmentCount(duration) -> 1..MaxSegmentBytes]

\* What one upload request carries: a source that plays for `duration` seconds
\* and whose container reports frame_count frames at fps frames a second, where
\* a broken container reports fps 0.
Uploads ==
    UNION {{[width |-> 160 * k, height |-> 90 * k, duration |-> d, file_sizes |-> fs,
             fps |-> f, frame_count |-> d * 30, is_public |-> p, user_id |-> "u1"] :
                k \in 1..MaxSourceScale, fs \in FileSizes(d), p \in BOOLEAN,
                f \in {0, 30}} :
           d \in 1..MaxDuration}

\* analyze_video: duration = frame_count / fps if fps > 0 else 0, which the
\* pipeline stores as int(analysis['duration']).
AnalyzedDuration(u) == IF u.fps > 0 THEN u.frame_count \div u.fps ELSE 0

CurrentQuality == optimal_qualities[tier + 1]

JobEnded == pc \in {"returned", "raised", "responded", "rejected"}

\* process_video_complete, steps 1 and 2: the analyzer and the thumbnail generator.
AnalyzeVideo ==
    /\ entry = "complete" /\ pc = "start"
    /\ optimal_qualities' = DetermineOptimalQualities(upload.width, upload.height)
    /\ pc' = "thumbnail"
    /\ UNCHANGED notPipeline
    /\ UNCHANGED <<upload, entry, tier, segments, new_video, video_id, session, db,
                   processing_status, transcode_log>>

AnalyzeVideoFails ==
    /\ entry = "complete" /\ pc = "start"
    /\ pc' = "except"
    /\ UNCHANGED notPipeline
    /\ UNCHANGED <<upload, entry, tier, optimal_qualities, segments, new_video, video_id,
                   session, db, processing_status, transcode_log>>

GenerateThumbnails ==
    /\ entry = "complete" /\ pc = "thumbnail"
    /\ pc' = "create"
    /\ UNCHANGED notPipeline
    /\ UNCHANGED <<upload, entry, tier, optimal_qualities, segments, new_video, video_id,
                   session, db, processing_status, transcode_log>>

\* The thumbnails generated only after the Video row was added to the session.
GenerateThumbnailsFailsAfterRow ==
    /\ entry = "complete" /\ pc = "thumbnail"
    /\ new_video' = "pending"
    /\ video_id' = TheVideoId
    /\ session' = [session EXCEPT !.videos = @ \cup
                     {VideoRow(TheVideoId, upload.user_id, upload.is_public,
                               AnalyzedDuration(upload), "processing")}]
    /\ pc' = "except"
    /\ UNCHANGED notPipeline
    /\ UNCHANGED <<upload, entry, tier, optimal_qualities, segments, db,
                   processing_status, transcode_log>>

\* generate_optimized_thumbnail raises.
GenerateThumbnailsFails ==
    /\ entry = "complete" /\ pc = "thumbnail"
    /\ pc' = "except"
    /\ UNCHANGED notPipeline
    /\ UNCHANGED <<upload, entry, tier, optimal_qualities, segments, new_video, video_id,
                   session, db, processing_status, transcode_log>>

\* Steps 3 and 4: Video(...), db.add, db.flush, and the status-map entry.
CreateVideoRecord ==
    /\ entry = "complete" /\ pc = "create"
    /\ new_video' = "pending"
    /\ video_id' = TheVideoId
    /\ session' = [session EXCEPT !.videos = @ \cup
                     {VideoRow(TheVideoId, upload.user_id, upload.is_public,
                               AnalyzedDuration(upload), "processing")}]
    /\ processing_status' =
           [v \in DOMAIN processing_status \cup {TheVideoId} |->
               IF v = TheVideoId THEN NewStatusEntry(Len(optimal_qualities))
               ELSE processing_status[v]]
    /\ tier' = 0
    /\ pc' = "loop"
    /\ UNCHANGED notPipeline
    /\ UNCHANGED <<upload, entry, optimal_qualities, segments, db, transcode_log>>

\* Step 5, the head of the loop body: the progress update before the transcode.
StartTier ==
    /\ entry = "complete" /\ pc = "loop" /\ tier < Len(optimal_qualities)
    /\ processing_status' =
           UpdateProgress(processing_status, video_id, tier, Len(optimal_qualities))
    /\ pc' = "transcode"
    /\ UNCHANGED notPipeline
    /\ UNCHANGED <<upload, entry, tier, optimal_qualities, segments, new_video, video_id,
                   session, db, transcode_log>>

\* _process_quality_with_segments returns the tier's segments.
TranscodeSucceeds ==
    /\ pc = "transcode"
    /\ segments' = ProcessQualityWithSegments(
                       CurrentQuality, EncoderOutput(upload.duration, upload.file_sizes))
    /\ transcode_log' = Append(transcode_log, [quality |-> CurrentQuality, ok |-> TRUE])
    /\ pc' = "store"
    /\ UNCHANGED notPipeline
    /\ UNCHANGED <<upload, entry, tier, optimal_qualities, new_video, video_id, session, db,
                   processing_status>>

\* _process_quality_with_segments raises: the encoder exits non-zero or times out.
TranscodeFails ==
    /\ pc = "transcode"
    /\ transcode_log' = Append(transcode_log, [quality |-> CurrentQuality, ok |-> FALSE])
    /\ pc' = "except"
    /\ UNCHANGED notPipeline
    /\ UNCHANGED <<upload, entry, tier, optimal_qualities, segments, new_video, video_id,
                   session, db, processing_status>>

\* The rest of the loop body: the VideoQuality row, its VideoSegment rows, and
\* qualities_completed.append(quality). Nothing is committed here.
StoreTier ==
    /\ entry = "complete" /\ pc = "store"
    /\ session' = AddTier(session, TheVideoId, CurrentQuality, segments)
    /\ processing_status' =
           [processing_status EXCEPT
               ![video_id].qualities_completed = Append(@, CurrentQuality)]
    /\ tier' = tier + 1
    /\ pc' = "loop"
    /\ UNCHANGED notPipeline
    /\ UNCHANGED <<upload, entry, optimal_qualities, segments, new_video, video_id, db,
                   transcode_log>>

\* Step 6: new_video.processing_status = "completed" and the final status update.
MarkCompleted ==
    /\ entry = "complete" /\ pc = "loop" /\ tier = Len(optimal_qualities)
    /\ session' = SetVideoStatus(session, TheVideoId, "completed")
    /\ processing_status' = UpdateCompleted(processing_status, video_id)
    /\ pc' = "commit"
    /\ UNCHANGED notPipeline
    /\ UNCHANGED <<upload, entry, tier, optimal_qualities, segments, new_video, video_id, db,
                   transcode_log>>

\* db.commit() of step 6.
FinalCommit ==
    /\ entry = "complete" /\ pc = "commit"
    /\ db' = session
    /\ pc' = "returned"
    /\ UNCHANGED notPipeline
    /\ UNCHANGED <<upload, entry, tier, optimal_qualities, segments, new_video, video_id,
                   session, processing_status, transcode_log>>

\* db.commit() of step 6 raises: the Session rolls back, and the rows it had
\* inserted, new_video among them, leave it.
FinalCommitFails ==
    /\ entry = "complete" /\ pc = "commit"
    /\ session' = db
    /\ new_video' = "transient"
    /\ pc' = "except"
    /\ UNCHANGED notPipeline
    /\ UNCHANGED <<upload, entry, tier, optimal_qualities, segments, video_id, db,
                   processing_status, transcode_log>>

\* The handler ends the transaction without writing it.
HandlerRollback(pending, committed) == committed

\* db.commit() in the except handler: what the session holds becomes the
\* committed content of the store.
HandlerCommit(pending, committed) == pending

\* The except handler of process_video_complete. With video_id unbound its test
\* `video_id in self.processing_status` raises, and that error leaves the function.
ExceptHandler ==
    /\ entry = "complete" /\ pc = "except"
    /\ IF new_video = "unbound"
       THEN UNCHANGED <<session, db, processing_status>>
       ELSE /\ session' = IF new_video = "pending"
                          THEN SetVideoStatus(session, TheVideoId, "failed")
                          ELSE session
            /\ db' = HandlerCommit(session', db)
            /\ processing_status' =
                   IF video_id \in DOMAIN processing_status
                   THEN UpdateFailed(processing_status, video_id)
                   ELSE processing_status
    /\ pc' = "raised"
    /\ UNCHANGED notPipeline
    /\ UNCHANGED <<upload, entry, tier, optimal_qualities, segments, new_video, video_id,
                   transcode_log>>

\* The handler's own db.commit() raises (the database that failed the final
\* commit still fails): the status map is left as it was.
ExceptHandlerCommitFails ==
    /\ entry = "complete" /\ pc = "except" /\ new_video = "transient"
    /\ session' = db
    /\ pc' = "raised"
    /\ UNCHANGED notPipeline
    /\ UNCHANGED <<upload, entry, tier, optimal_qualities, segments, new_video, video_id, db,
                   processing_status, transcode_log>>

\* create_video_optimized after `await video_pipeline.process_video_complete(...)`
\* has returned the id: the answer that reports processing_status "processing".
CreateVideoResponds ==
    /\ entry = "complete" /\ pc = "returned"
    /\ pc' = "responded"
    /\ UNCHANGED notPipeline
    /\ UNCHANGED <<upload, entry, tier, optimal_qualities, segments, new_video, video_id,
                   session, db, processing_status, transcode_log>>

\* create_video_optimized when the pipeline raised: an HTTPException is re-raised,
\* any other exception is answered 500 after db.rollback().
CreateVideoRejects ==
    /\ entry = "complete" /\ pc = "raised"
    /\ session' = IF new_video = "pending" THEN session ELSE db
    /\ pc' = "rejected"
    /\ UNCHANGED notPipeline
    /\ UNCHANGED <<upload, entry, tier, optimal_qualities, segments, new_video, video_id,
                   db, processing_status, transcode_log>>

\* process_video_background: reading the file and the analysis before the loop.
BackgroundPrepare ==
    /\ entry = "background" /\ pc = "start"
    /\ tier' = 0
    /\ pc' = "loop"
    /\ UNCHANGED notPipeline
    /\ UNCHANGED <<upload, entry, optimal_qualities, segments, new_video, video_id, session,
                   db, processing_status, transcode_log>>

BackgroundPrepareFails ==
    /\ entry = "background" /\ pc = "start"
    /\ pc' = "except"
    /\ UNCHANGED notPipeline
    /\ UNCHANGED <<upload, entry, tier, optimal_qualities, segments, new_video, video_id,
                   session, db, processing_status, transcode_log>>

BackgroundStartTier ==
    /\ entry = "background" /\ pc = "loop" /\ tier < Len(optimal_qualities)
    /\ processing_status' =
           IF video_id \in DOMAIN processing_status
           THEN UpdateProgress(processing_status, video_id, tier, Len(optimal_qualities))
           ELSE processing_status
    /\ pc' = "transcode"
    /\ UNCHANGED notPipeline
    /\ UNCHANGED <<upload, entry, tier, optimal_qualities, segments, new_video, video_id,
                   session, db, transcode_log>>

\* The Video is queried, the tier's rows are added, and db.commit() follows.
BackgroundStoreTier ==
    /\ entry = "background" /\ pc = "store"
    /\ IF HasVideo(session, video_id)
       THEN /\ session' = AddTier(session, video_id, CurrentQuality, segments)
            /\ db' = session'
            /\ tier' = tier + 1
            /\ pc' = "loop"
       ELSE /\ pc' = "except"
            /\ UNCHANGED <<session, db, tier>>
    /\ UNCHANGED notPipeline
    /\ UNCHANGED <<upload, entry, optimal_qualities, segments, new_video, video_id,
                   processing_status, transcode_log>>

\* After the loop: the Video is set completed and committed, then the status map.
BackgroundMarkCompleted ==
    /\ entry = "background" /\ pc = "loop" /\ tier = Len(optimal_qualities)
    /\ session' = SetVideoStatus(session, video_id, "completed")
    /\ db' = session'
    /\ processing_status' =
           IF video_id \in DOMAIN processing_status
           THEN UpdateCompleted(processing_status, video_id)
           ELSE processing_status
    /\ pc' = "cleanup"
    /\ UNCHANGED notPipeline
    /\ UNCHANGED <<upload, entry, tier, optimal_qualities, segments, new_video, video_id,
                   transcode_log>>

\* os.unlink(temp_input_path)
BackgroundCleanup ==
    /\ entry = "background" /\ pc = "cleanup"
    /\ pc' = "returned"
    /\ UNCHANGED notPipeline
    /\ UNCHANGED <<upload, entry, tier, optimal_qualities, segments, new_video, video_id,
                   session, db, processing_status, transcode_log>>

\* os.unlink raises OSError, inside the try block.
BackgroundCleanupFails ==
    /\ entry = "background" /\ pc = "cleanup"
    /\ pc' = "except"
    /\ UNCHANGED notPipeline
    /\ UNCHANGED <<upload, entry, tier, optimal_qualities, segments, new_video, video_id,
                   session, db, processing_status, transcode_log>>

\* The except handler of process_video_background; it swallows the exception.
BackgroundExceptHandler ==
    /\ entry = "background" /\ pc = "except"
    /\ session' = SetVideoStatus(session, video_id, "failed")
    /\ db' = session'
    /\ processing_status' =
           IF video_id \in DOMAIN processing_status
           THEN UpdateFailed(processing_status, video_id)
           ELSE processing_status
    /\ pc' = "returned"
    /\ UNCHANGED notPipeline
    /\ UNCHANGED <<upload, entry, tier, optimal_qualities, segments, new_video, video_id,
                   transcode_log>>

IdleAnalyzer ==
    /\ source = [width |-> 0, height |-> 0]
    /\ optimal = <<>>

IdleAuto ==
    /\ available_qualities = <<>>
    /\ user_agent = <<>>
    /\ detections = <<>>

\* No request has been answered yet. Every answer has these fields; a field an
\* endpoint does not set keeps the value it has here.
NoResponse ==
    [endpoint |-> "none", requester |-> "", video_id |-> "", quality |-> "", size |-> "",
     segment_index |-> 0, range |-> <<>>, bandwidth |-> <<>>, user_agent |-> <<>>,
     status |-> 0, content_range |-> <<>>, accept_ranges |-> "", body |-> <<>>,
     manifest |-> <<>>, recommended |-> ""]

IdleStream == response = NoResponse

\* No second call is running.
NoOtherRun == [pc |-> "none", tier |-> 0]

IdleHost == clock = 0 /\ runs = 0 /\ max_age_hours = <<>> /\ other = NoOtherRun

\* process_video_complete starts on an empty store. process_video_background
\* starts "after the initial video record is created": the Video row is committed
\* with status processing, and the caller passes the video id and the analyzed tiers.
Init ==
    /\ IdleAnalyzer /\ IdleAuto /\ IdleStream /\ IdleHost
    /\ upload \in Uploads
    /\ entry \in {"complete", "background"}
    /\ pc = "start"
    /\ tier = 0
    /\ segments = <<>>
    /\ new_video = "unbound"
    /\ transcode_log = <<>>
    /\ IF entry = "complete"
       THEN /\ optimal_qualities = <<>>
            /\ video_id = ""
            /\ db = EmptyStore
            /\ processing_status = NoStatus
       ELSE /\ optimal_qualities = DetermineOptimalQualities(upload.width, upload.height)
            /\ video_id = TheVideoId
            /\ db = [EmptyStore EXCEPT !.videos =
                        {VideoRow(TheVideoId, upload.user_id, upload.is_public,
                                  AnalyzedDuration(upload), "processing")}]
            /\ processing_status \in
                   {NoStatus, [v \in {TheVideoId} |-> NewStatusEntry(Len(optimal_qualities))]}
    /\ session = db

Next ==
    \/ AnalyzeVideo
    \/ AnalyzeVideoFails
    \/ GenerateThumbnails
    \/ GenerateThumbnailsFails
    \/ CreateVideoRecord
    \/ StartTier
    \/ TranscodeSucceeds
    \/ TranscodeFails
    \/ StoreTier
    \/ MarkCompleted
    \/ FinalCommit
    \/ FinalCommitFails
    \/ ExceptHandler
    \/ ExceptHandlerCommitFails
    \/ CreateVideoResponds
    \/ CreateVideoRejects
    \/ BackgroundPrepare
    \/ BackgroundPrepareFails
    \/ BackgroundStartTier
    \/ BackgroundStoreTier
    \/ BackgroundMarkCompleted
    \/ BackgroundCleanup
    \/ BackgroundCleanupFails
    \/ BackgroundExceptHandler

Spec == Init /\ [][Next]_vars

\* ------------------------------------------- no pipeline job in this run

IdleUpload ==
    [width |-> 160, height |-> 90, duration |-> 1, file_sizes |-> <<1>>,
     fps |-> 30, frame_count |-> 30, is_public |-> TRUE, user_id |-> "u1"]

IdleJob ==
    /\ upload = IdleUpload
    /\ entry = "none"
    /\ pc = "idle"
    /\ tier = 0
    /\ optimal_qualities = <<>>
    /\ segments = <<>>
    /\ new_video = "unbound"
    /\ video_id = ""
    /\ processing_status = NoStatus
    /\ transcode_log = <<>>

IdlePipeline ==
    /\ IdleJob
    /\ session = EmptyStore
    /\ db = EmptyStore

\* ------------------------------------- Source Analyzer: tier selection

\* The frame sizes analyze_video reads from the container.
Sources ==
    {[width |-> 160 * k, height |-> 90 * j] :
        k \in 1..MaxWidthUnits, j \in 1..MaxHeightUnits}

InitAnalyzer ==
    /\ source \in Sources
    /\ optimal = <<>>
    /\ IdlePipeline /\ IdleAuto /\ IdleStream /\ IdleHost

\* analyze_video: optimal_qualities = self._determine_optimal_qualities(width, height)
SelectQualities ==
    /\ optimal = <<>>
    /\ optimal' = DetermineOptimalQualities(source.width, source.height)
    /\ UNCHANGED <<source, varsPipeline, varsAuto, varsStream, varsHost>>

NextAnalyzer == SelectQualities

SpecAnalyzer == InitAnalyzer /\ [][NextAnalyzer]_vars

\* ------------------------------- Adaptive Streaming Server: auto quality

\* str.lower() on the words a User-Agent is made of here.
Lower(word) ==
    CASE word = "Mobile"  -> "mobile"
      [] word = "Android" -> "android"
      [] word = "Mozilla" -> "mozilla"
      [] word = "Windows" -> "windows"
      [] word = "Linux"   -> "linux"
      [] word = "iPhone"  -> "iphone"
      [] OTHER            -> word

\* `word in user_agent.lower()`
InLowered(word, agent) == \E i \in 1..Len(agent) : Lower(agent[i]) = word

\* sorted(available_qualities, key=QUALITY_PRIORITY.get(q, 999)): a stable sort.
RECURSIVE InsertByPriority(_, _)
InsertByPriority(q, sorted) ==
    IF sorted = <<>> THEN <<q>>
    ELSE IF QualityPriority(q) < QualityPriority(Head(sorted)) THEN <<q>> \o sorted
    ELSE <<Head(sorted)>> \o InsertByPriority(q, Tail(sorted))

RECURSIVE SortedByPriority(_)
SortedByPriority(qualities) ==
    IF qualities = <<>> THEN <<>>
    ELSE InsertByPriority(qualities[Len(qualities)],
                          SortedByPriority(SubSeq(qualities, 1, Len(qualities) - 1)))

\* The kbps bracket table of detect_optimal_quality.
BandwidthTarget(kbps) ==
    IF kbps >= 25000 THEN "2160p"
    ELSE IF kbps >= 12000 THEN "1440p"
    ELSE IF kbps >= 6000 THEN "1080p"
    ELSE IF kbps >= 3000 THEN "720p"
    ELSE IF kbps >= 1500 THEN "480p"
    ELSE IF kbps >= 700 THEN "360p"
    ELSE IF kbps >= 300 THEN "240p"
    ELSE "144p"

\* An Optional[int]: <<>> is None, <<b>> is the integer b.
NoHint == <<>>

\* `if bandwidth_hint:` -- None and 0 are both false.
HintIsTruthy(bandwidth_hint) == bandwidth_hint # NoHint /\ bandwidth_hint[1] # 0

\* The bracket's tier recommended whether or not the video has it.
DetectBracketTier(agent, connection, bandwidth_hint, available) ==
    IF HintIsTruthy(bandwidth_hint) THEN BandwidthTarget(bandwidth_hint[1]) ELSE "720p"

\* AdaptiveStreamingService.detect_optimal_quality
DetectOptimalQuality(agent, connection, bandwidth_hint, available) ==
    IF available = <<>> THEN "360p"
    ELSE
    LET sorted_qualities == SortedByPriority(available)
        target == BandwidthTarget(bandwidth_hint[1])
        by_bandwidth ==
            IF ~HintIsTruthy(bandwidth_hint) THEN ""
            ELSE IF target \in SeqToSet(sorted_qualities) THEN target
            ELSE FirstWhere(sorted_qualities,
                            LAMBDA q : QualityPriority(q) >= QualityPriority(target), "")
        by_mobile ==
            IF InLowered("mobile", agent) \/ InLowered("android", agent)
            THEN FirstWhere(<<"480p", "360p", "240p", "144p">>,
                            LAMBDA q : q \in SeqToSet(available), "")
            ELSE ""
        by_desktop ==
            FirstWhere(<<"720p", "1080p", "480p", "360p">>,
                       LAMBDA q : q \in SeqToSet(available), "")
    IN  IF by_bandwidth # "" THEN by_bandwidth
        ELSE IF by_mobile # "" THEN by_mobile
        ELSE IF by_desktop # "" THEN by_desktop
        ELSE sorted_qualities[1]

\* The tier lists the pipeline can have stored for a video: the tiers
\* process_video_complete got through, in order, before it ended.
StoredTierLists ==
    UNION {{Prefix(DetermineOptimalQualities(s.width, s.height), n) :
                n \in 1..Len(DetermineOptimalQualities(s.width, s.height))} :
           s \in Sources}

UserAgents ==
    {<<>>, <<"Mozilla", "Windows">>, <<"Mozilla", "Linux", "Android">>,
     <<"Mozilla", "iPhone", "Mobile">>}

\* Bandwidth hints in kbps: 0 and both sides of every bracket of the table.
Bandwidths ==
    {0, 1, 299, 300, 699, 700, 1499, 1500, 2999, 3000, 5999, 6000, 11999, 12000,
     24999, 25000, 50000}

Hints == {NoHint} \cup {<<b>> : b \in Bandwidths}

InitAuto ==
    /\ available_qualities \in StoredTierLists
    /\ user_agent \in UserAgents
    /\ detections = <<>>
    /\ IdleAnalyzer /\ IdlePipeline /\ IdleStream /\ IdleHost

\* One call of detect_optimal_quality for the video; the last two are kept.
Detect(bandwidth_hint) ==
    /\ detections' =
           (IF Len(detections) < 2 THEN detections ELSE Tail(detections))
           \o <<[bandwidth_hint |-> bandwidth_hint,
                 recommended |-> DetectOptimalQuality(user_agent, "", bandwidth_hint,
                                                      available_qualities)]>>
    /\ UNCHANGED <<available_qualities, user_agent, varsAnalyzer, varsPipeline, varsStream,
                   varsHost>>

NextAuto == \E bandwidth_hint \in Hints : Detect(bandwidth_hint)

SpecAuto == InitAuto /\ [][NextAuto]_vars

\* ------------------------- Adaptive Streaming Server: segments and ranges

\* A Range header is a sequence of characters; the token "bytes=" stands for
\* that substring, "x" for any character that is neither a digit nor '-'.
DigitChars == <<"0", "1", "2", "3", "4", "5", "6", "7", "8", "9">>

IsDigit(c) == \E d \in 1..Len(DigitChars) : DigitChars[d] = c

DigitValue(c) == (CHOOSE d \in 1..Len(DigitChars) : DigitChars[d] = c) - 1

\* str(n), as the f-strings format an int.
Str(n) == [i \in 1..Len(Digits(n)) |-> DigitChars[Digits(n)[i] + 1]]

\* range.replace('bytes=', '')
RemoveUnit(range) == SelectSeq(range, LAMBDA c : c # "bytes=")

\* text.split('-')
RECURSIVE SplitDash(_)
SplitDash(text) ==
    IF \A i \in 1..Len(text) : text[i] # "-"
    THEN <<text>>
    ELSE LET i == CHOOSE k \in 1..Len(text) :
                      text[k] = "-" /\ \A j \in 1..(k - 1) : text[j] # "-"
         IN  <<SubSeq(text, 1, i - 1)>> \o SplitDash(SubSeq(text, i + 1, Len(text)))

\* int(text) succeeds on a non-empty string of digits.
IsInt(text) == text # <<>> /\ \A i \in 1..Len(text) : IsDigit(text[i])

RECURSIVE IntOf(_)
IntOf(text) ==
    IF text = <<>> THEN 0
    ELSE IntOf(SubSeq(text, 1, Len(text) - 1)) * 10 + DigitValue(text[Len(text)])

\* start, end = range_match.split('-'); int(start) if start else 0;
\* int(end) if end else segment_size - 1. error is TRUE where the code raises
\* ValueError: the unpacking of other than two parts, or int() of a non-number.
ParseRange(range, segment_size) ==
    LET parts == SplitDash(RemoveUnit(range))
    IN  IF Len(parts) # 2
        THEN [error |-> TRUE, start |-> 0, end |-> 0]
        ELSE IF \/ parts[1] # <<>> /\ ~IsInt(parts[1])
                \/ parts[2] # <<>> /\ ~IsInt(parts[2])
        THEN [error |-> TRUE, start |-> 0, end |-> 0]
        ELSE [error |-> FALSE,
              start |-> IF parts[1] # <<>> THEN IntOf(parts[1]) ELSE 0,
              end   |-> IF parts[2] # <<>> THEN IntOf(parts[2]) ELSE segment_size - 1]

\* The validation without the test of end against the segment size.
RangeNotSatisfiableByStart(start, end, segment_size) ==
    start >= segment_size \/ start > end

\* if start >= segment_size or end >= segment_size or start > end: raise 416
RangeNotSatisfiable(start, end, segment_size) ==
    start >= segment_size \/ end >= segment_size \/ start > end

\* segment_data[start:end]: the slice without its last byte.
ExtractChunkExclusive(segment_data, start, end) ==
    SubSeq(segment_data, start + 1,
           IF end < Len(segment_data) THEN end ELSE Len(segment_data))

\* chunk_data = segment_data[start:end + 1]; a slice stops at the end of the data.
ExtractChunk(segment_data, start, end) ==
    SubSeq(segment_data, start + 1,
           IF end + 1 < Len(segment_data) THEN end + 1 ELSE Len(segment_data))

\* f"bytes {start}-{end}/{segment_size}"
ContentRange(start, end, segment_size) ==
    <<"bytes ">> \o Str(start) \o <<"-">> \o Str(end) \o <<"/">> \o Str(segment_size)

\* The accounts in the users table, and who may send a request: an account's
\* bearer token, no token at all, or the token of an account since deleted.
Requesters == Users \cup {"anonymous", "deleted"}

\* Depends(verify_token): oauth2_bearer answers 401 without a bearer token,
\* verify_token 404 when the token's user has no row; 0 lets the handler run.
VerifyToken(requester) ==
    IF requester = "anonymous" THEN 401
    ELSE IF requester \notin Users THEN 404
    ELSE 0

\* not video.is_public and (not current_user or video.user_id != current_user.id)
AccessDenied(video, requester) ==
    ~video.is_public /\ (requester \notin Users \/ video.user_id # requester)

VideoOf(store, vid) == CHOOSE v \in store.videos : v.id = vid

QualitiesOf(store, vid) == {q \in store.qualities : q.video_id = vid}

\* The rows a query without ORDER BY returns, in any order.
Orderings(rows) ==
    {order \in [1..Cardinality(rows) -> rows] :
        \A i, j \in 1..Cardinality(rows) : i # j => order[i] # order[j]}

\* db.query(VideoSegment).join(VideoQuality).join(Video).filter(...)
MatchingSegments(store, vid, quality, segment_index) ==
    {s \in store.segments :
        /\ s.segment_index = segment_index
        /\ \E q \in QualitiesOf(store, vid) :
              q.id = s.video_quality_id /\ q.quality = quality /\ HasVideo(store, vid)}

\* stream_video_segment from the permission check on, for the segment found.
SegmentAnswer(request, segment, video) ==
    LET segment_data == segment.segment_data
        segment_size == Len(segment_data)
        parsed == ParseRange(request.range, segment_size)
    IN  IF AccessDenied(video, request.requester)
        THEN [request EXCEPT !.status = 403]
        ELSE IF request.range # <<>> /\ ~parsed.error
        THEN IF RangeNotSatisfiable(parsed.start, parsed.end, segment_size)
             THEN [request EXCEPT !.status = 416]
             ELSE [request EXCEPT
                      !.status = 206,
                      !.content_range = ContentRange(parsed.start, parsed.end, segment_size),
                      !.accept_ranges = "bytes",
                      !.body = ExtractChunk(segment_data, parsed.start, parsed.end)]
        ELSE [request EXCEPT !.status = 200, !.accept_ranges = "bytes",
                             !.body = segment_data]

\* GET /video/{video_id}/quality/{quality}/segment/{segment_index}
StreamVideoSegment(requester, vid, quality, segment_index, range) ==
    LET request == [NoResponse EXCEPT
                       !.endpoint = "segment", !.requester = requester,
                       !.video_id = vid, !.quality = quality,
                       !.segment_index = segment_index, !.range = range]
        found == MatchingSegments(db, vid, quality, segment_index)
    IN  /\ pc = "idle"
        /\ IF VerifyToken(requester) # 0
           THEN response' = [request EXCEPT !.status = VerifyToken(requester)]
           ELSE IF found = {}
           THEN response' = [request EXCEPT !.status = 404]
           ELSE \E segment \in found :
                    response' = SegmentAnswer(request, segment, VideoOf(db, vid))
        /\ UNCHANGED <<varsAnalyzer, varsPipeline, varsAuto, varsHost>>

\* The thumbnail the streaming router picks for `size`, large when the size is
\* unknown or its thumbnail is missing.
ThumbnailData(video, size) ==
    IF size = "small" /\ video.thumbnail_small_data # <<>>
    THEN video.thumbnail_small_data
    ELSE IF size = "medium" /\ video.thumbnail_medium_data # <<>>
    THEN video.thumbnail_medium_data
    ELSE video.thumbnail_large_data

\* GET /streaming/video/{video_id}/thumbnail/{size}: the endpoint takes no
\* current user and does not read is_public.
ServeVideoThumbnail(requester, vid, size) ==
    LET request == [NoResponse EXCEPT
                       !.endpoint = "thumbnail", !.requester = requester,
                       !.video_id = vid, !.size = size]
    IN  /\ pc = "idle"
        /\ response' =
               IF ~HasVideo(db, vid) THEN [request EXCEPT !.status = 404]
               ELSE IF ThumbnailData(VideoOf(db, vid), size) = <<>>
               THEN [request EXCEPT !.status = 404]
               ELSE [request EXCEPT
                        !.status = 200,
                        !.body = ThumbnailData(VideoOf(db, vid), size)]
        /\ UNCHANGED <<varsAnalyzer, varsPipeline, varsAuto, varsHost>>

\* video.thumbnail_medium_data or video.thumbnail_large_data or
\* video.thumbnail_small_data
MediaThumbnailData(video) ==
    IF video.thumbnail_medium_data # <<>> THEN video.thumbnail_medium_data
    ELSE IF video.thumbnail_large_data # <<>> THEN video.thumbnail_large_data
    ELSE video.thumbnail_small_data

\* GET /videos/media/thumbnail/{video_id}, likewise without a current user.
ServeMediaThumbnail(requester, vid) ==
    LET request == [NoResponse EXCEPT
                       !.endpoint = "media_thumbnail", !.requester = requester,
                       !.video_id = vid]
    IN  /\ pc = "idle"
        /\ response' =
               IF ~HasVideo(db, vid) THEN [request EXCEPT !.status = 404]
               ELSE IF MediaThumbnailData(VideoOf(db, vid)) = <<>>
               THEN [request EXCEPT !.status = 404]
               ELSE [request EXCEPT
                        !.status = 200,
                        !.body = MediaThumbnailData(VideoOf(db, vid))]
        /\ UNCHANGED <<varsAnalyzer, varsPipeline, varsAuto, varsHost>>

\* sorted(quality.segments, key=lambda s: s.segment_index), as manifest entries.
RECURSIVE ManifestSegments(_)
ManifestSegments(rows) ==
    IF rows = {} THEN <<>>
    ELSE LET first == CHOOSE s \in rows :
                         \A t \in rows : s.segment_index <= t.segment_index
         IN  <<[index |-> first.segment_index, duration |-> first.duration,
                start_time |-> first.start_time, end_time |-> first.end_time,
                size |-> first.segment_size]>>
             \o ManifestSegments(rows \ {first})

\* The manifest's "qualities" list for the tiers in the order the query gave them.
ManifestQualities(store, order) ==
    [i \in 1..Len(order) |->
        [quality |-> order[i].quality, resolution |-> order[i].resolution,
         segment_duration |-> order[i].segment_duration,
         total_segments |-> order[i].total_segments,
         total_size |-> order[i].total_size,
         segments |-> ManifestSegments(
                          {s \in store.segments : s.video_quality_id = order[i].id})]]

\* GET /video/{video_id}/manifest. The 404 and the 403 are raised inside the
\* try block, whose only handler is `except Exception`: it answers 500.
GetVideoManifest(requester, vid) ==
    LET request == [NoResponse EXCEPT
                       !.endpoint = "manifest", !.requester = requester,
                       !.video_id = vid]
        raised == IF ~HasVideo(db, vid) THEN 404
                  ELSE IF AccessDenied(VideoOf(db, vid), requester) THEN 403
                  ELSE 0
    IN  /\ pc = "idle"
        /\ IF VerifyToken(requester) # 0
           THEN response' = [request EXCEPT !.status = VerifyToken(requester)]
           ELSE IF raised # 0
           THEN response' = [request EXCEPT !.status = 500]
           ELSE \E order \in Orderings(QualitiesOf(db, vid)) :
                    response' = [request EXCEPT
                                    !.status = 200,
                                    !.manifest = ManifestQualities(db, order)]
        /\ UNCHANGED <<varsAnalyzer, varsPipeline, varsAuto, varsHost>>

\* GET /video/{video_id}/auto
StreamVideoAutoQuality(requester, vid, bandwidth, agent) ==
    LET request == [NoResponse EXCEPT
                       !.endpoint = "auto", !.requester = requester,
                       !.video_id = vid, !.bandwidth = bandwidth,
                       !.user_agent = agent]
    IN  /\ pc = "idle"
        /\ IF VerifyToken(requester) # 0
           THEN response' = [request EXCEPT !.status = VerifyToken(requester)]
           ELSE IF ~HasVideo(db, vid)
           THEN response' = [request EXCEPT !.status = 404]
           ELSE IF AccessDenied(VideoOf(db, vid), requester)
           THEN response' = [request EXCEPT !.status = 403]
           ELSE IF QualitiesOf(db, vid) = {}
           THEN response' = [request EXCEPT !.status = 404]
           ELSE \E order \in Orderings(QualitiesOf(db, vid)) :
                    response' =
                        [request EXCEPT
                            !.status = 200,
                            !.recommended =
                                DetectOptimalQuality(
                                    agent, "", bandwidth,
                                    [i \in 1..Len(order) |-> order[i].quality])]
        /\ UNCHANGED <<varsAnalyzer, varsPipeline, varsAuto, varsHost>>

\* ---------------------------------------- the store the server reads from

\* The bytes of a stored segment of the given size, no two alike.
SegmentBytes(size) == [j \in 1..size |-> 16 + j]

\* The encoder's files for segments of the given sizes.
SegmentFiles(sizes) ==
    {[name |-> SegmentFileName(k - 1), content |-> SegmentBytes(sizes[k])] :
        k \in 1..Len(sizes)}

\* The pipeline's loop over the tiers: each is transcoded and stored.
RECURSIVE AddTiers(_, _, _, _)
AddTiers(store, vid, tiers, files) ==
    IF tiers = <<>> THEN store
    ELSE AddTiers(AddTier(store, vid, Head(tiers),
                          ProcessQualityWithSegments(Head(tiers), files)),
                  vid, Tail(tiers), files)

\* What process_video_complete has committed for u1's upload once it is done.
StoredVideo(is_public, tiers, sizes) ==
    AddTiers([EmptyStore EXCEPT !.videos =
                 {VideoRow(TheVideoId, "u1", is_public,
                           Len(sizes) * SEGMENT_DURATION, "completed")}],
             TheVideoId, tiers, SegmentFiles(sizes))

\* --------------------------------------- Range requests on one segment

RangeChars == {"bytes=", "-", "x", "0", "1", "2"}

RangeHeaders == UNION {[1..n -> RangeChars] : n \in 0..MaxHeaderLen}

\* One request is in flight: the owner's, for segment 0 of the 144p tier, with
\* any Range header. The handler changes nothing in the store, so requests
\* do not influence one another.
InitRange ==
    /\ IdleAnalyzer /\ IdleAuto /\ IdleJob /\ IdleHost
    /\ \E is_public \in BOOLEAN, size \in 1..MaxSegmentLen :
           db = StoredVideo(is_public, <<"144p">>, <<size>>)
    /\ session = db
    /\ \E range \in RangeHeaders :
           response = [NoResponse EXCEPT !.endpoint = "pending", !.range = range]

NextRange ==
    /\ response.endpoint = "pending"
    /\ StreamVideoSegment("u1", TheVideoId, "144p", 0, response.range)

SpecRange == InitRange /\ [][NextRange]_vars

\* ------------------------------------------- requests to the three endpoints

InitStream ==
    /\ IdleAnalyzer /\ IdleAuto /\ IdleStream /\ IdleJob /\ IdleHost
    /\ \E is_public \in BOOLEAN,
          tiers \in {<<>>, <<"144p">>, <<"144p", "240p">>},
          sizes \in {<<1>>, <<2, 1>>} :
           db = StoredVideo(is_public, tiers, sizes)
    /\ session = db

VideoIds == {TheVideoId, "v2"}

\* The sizes a thumbnail is asked in; "huge" is none of the stored ones.
ThumbnailSizes == {"small", "medium", "large", "huge"}

NextStream ==
    \/ \E requester \in Requesters, vid \in VideoIds :
           GetVideoManifest(requester, vid)
    \/ \E requester \in Requesters, vid \in VideoIds, quality \in {"144p", "240p"},
          segment_index \in 0..1, range \in {<<>>, <<"bytes=", "0", "-", "0">>} :
           StreamVideoSegment(requester, vid, quality, segment_index, range)
    \/ \E requester \in Requesters, vid \in VideoIds, bandwidth \in Hints,
          agent \in UserAgents :
           StreamVideoAutoQuality(requester, vid, bandwidth, agent)
    \/ \E requester \in Requesters, vid \in VideoIds, size \in ThumbnailSizes :
           ServeVideoThumbnail(requester, vid, size)
    \/ \E requester \in Requesters, vid \in VideoIds :
           ServeMediaThumbnail(requester, vid)

SpecStream == InitStream /\ [][NextStream]_vars

\* ------------------------------------------- cleaning the status map

\* status["end_time"] <= cutoff_time
IsOldOrAtCutoff(status, cutoff_time) ==
    status.end_time # <<>> /\ status.end_time[1] <= cutoff_time

\* "end_time" in status and status["end_time"] < cutoff_time
IsOld(status, cutoff_time) ==
    status.end_time # <<>> /\ status.end_time[1] < cutoff_time

\* cleanup_old_status: the map without the entries collected in to_remove.
CleanedStatus(map, now, age) ==
    LET cutoff_time == now - age
        to_remove == {v \in DOMAIN map : IsOld(map[v], cutoff_time)}
    IN  [v \in DOMAIN map \ to_remove |-> map[v]]

StatusIds == {"v1", "v2", "v3"}

\* The entries a job can have left: still processing, or ended at some hour.
StatusEntries ==
    {NewStatusEntry(1)}
    \cup {[NewStatusEntry(1) EXCEPT !.status = st, !.end_time = <<t>>] :
              st \in {"completed", "failed"}, t \in 0..MaxClock}

StatusMaps == UNION {[ids -> StatusEntries] : ids \in SUBSET StatusIds}

InitCleanup ==
    /\ IdleAnalyzer /\ IdleAuto /\ IdleStream
    /\ upload = IdleUpload /\ entry = "none" /\ pc = "idle" /\ tier = 0
    /\ optimal_qualities = <<>> /\ segments = <<>>
    /\ new_video = "unbound" /\ video_id = "" /\ transcode_log = <<>>
    /\ session = EmptyStore /\ db = EmptyStore
    /\ other = NoOtherRun
    /\ runs = 0
    /\ max_age_hours = <<>>
    /\ clock \in 0..MaxClock
    /\ \E map \in StatusMaps :
           /\ \A v \in DOMAIN map :
                  map[v].end_time # <<>> => map[v].end_time[1] <= clock
           /\ processing_status = map

CleanupOldStatus(age) ==
    /\ pc = "idle"
    /\ max_age_hours' = <<age>>
    /\ processing_status' = CleanedStatus(processing_status, clock, age)
    /\ UNCHANGED <<clock, runs, other, varsAnalyzer, varsAuto, varsStream>>
    /\ UNCHANGED <<upload, entry, pc, tier, optimal_qualities, segments, new_video, video_id,
                   session, db, transcode_log>>

NextCleanup == \E age \in 0..MaxClock : CleanupOldStatus(age)

SpecCleanup == InitCleanup /\ [][NextCleanup]_vars

\* ------------------------------------------- deleting a video

\* db.delete(video) without the rows below it.
DeleteVideoRowOnly(store, vid) ==
    [store EXCEPT !.videos = {v \in @ : v.id # vid}]

\* The deletes of delete_video: the VideoSegment rows of every VideoQuality of
\* the video, its VideoQuality rows, then the Video itself.
DeleteRows(store, vid) ==
    LET qualities == {q.id : q \in QualitiesOf(store, vid)}
    IN  [videos    |-> {v \in store.videos : v.id # vid},
         qualities |-> {q \in store.qualities : q.video_id # vid},
         segments  |-> {g \in store.segments : g.video_quality_id \notin qualities}]

\* What delete_video answers: verify_token first, then 404 for an unknown id,
\* 403 for a requester who is not the creator, else the message of success.
DeleteVideoStatus(store, requester, vid) ==
    IF VerifyToken(requester) # 0 THEN VerifyToken(requester)
    ELSE IF ~HasVideo(store, vid) THEN 404
    ELSE IF VideoOf(store, vid).user_id # requester THEN 403
    ELSE 200

\* DELETE /{video_id}. The request has its own session, which sees what is
\* committed; the pipeline's session holds nothing uncommitted for a video
\* that is committed and sees the rows gone at its next query.
DeleteVideo(requester, vid) ==
    LET answer == DeleteVideoStatus(db, requester, vid)
    IN  /\ response' = [NoResponse EXCEPT
                           !.endpoint = "delete_video", !.requester = requester,
                           !.video_id = vid, !.status = answer]
        /\ IF answer = 200
           THEN /\ db' = DeleteRows(db, vid)
                /\ session' = DeleteRows(session, vid)
           ELSE UNCHANGED <<db, session>>
        /\ UNCHANGED <<varsAnalyzer, varsAuto, varsHost>>
        /\ UNCHANGED <<upload, entry, pc, tier, optimal_qualities, segments, new_video,
                       video_id, processing_status, transcode_log>>

\* The creator's delete when the database fails: db.rollback() and 500.
DeleteVideoFails(requester, vid) ==
    /\ DeleteVideoStatus(db, requester, vid) = 200
    /\ response' = [NoResponse EXCEPT
                       !.endpoint = "delete_video", !.requester = requester,
                       !.video_id = vid, !.status = 500]
    /\ UNCHANGED <<varsAnalyzer, varsAuto, varsHost, varsPipeline>>

NextLibrary ==
    \/ Next
    \/ \E requester \in Requesters, vid \in VideoIds : DeleteVideo(requester, vid)
    \/ \E requester \in Requesters, vid \in VideoIds : DeleteVideoFails(requester, vid)

SpecLibrary == Init /\ [][NextLibrary]_vars

\* ------------------------------------------- a run repeated for a video id

\* process_video_background called once more with the video id and the tiers
\* of a run that has ended; nothing in the function asks what is already stored.
BackgroundRerun ==
    /\ entry = "background" /\ pc = "returned"
    /\ runs < MaxReruns
    /\ runs' = runs + 1
    /\ pc' = "start"
    /\ tier' = 0
    /\ segments' = <<>>
    /\ UNCHANGED <<clock, max_age_hours, other, varsAnalyzer, varsAuto, varsStream>>
    /\ UNCHANGED <<upload, entry, optimal_qualities, new_video, video_id, session, db,
                   processing_status, transcode_log>>

NextRerun == Next \/ BackgroundRerun

SpecRerun == Init /\ [][NextRerun]_vars

\* ------------------------------------------- two calls for one video id

\* What a step of the second call leaves alone.
notOtherRun == <<clock, runs, max_age_hours, varsAnalyzer, varsAuto, varsStream>>

\* process_video_background is called for the video id of a call that has
\* not returned; the function takes no lock and looks for no running call.
OtherCall ==
    /\ entry = "background" /\ pc # "returned"
    /\ other = NoOtherRun
    /\ other' = [pc |-> "start", tier |-> 0]
    /\ UNCHANGED notOtherRun
    /\ UNCHANGED varsPipeline

\* The second call reads the file and analyzes it.
OtherPrepare ==
    /\ other.pc = "start"
    /\ other' = [pc |-> "loop", tier |-> 0]
    /\ UNCHANGED notOtherRun
    /\ UNCHANGED varsPipeline

\* One pass of the second call's loop: the progress update, the transcode,
\* the query of the Video, the tier's rows and db.commit().
OtherStoreTier ==
    /\ other.pc = "loop" /\ other.tier < Len(optimal_qualities)
    /\ processing_status' =
           IF video_id \in DOMAIN processing_status
           THEN UpdateProgress(processing_status, video_id, other.tier,
                               Len(optimal_qualities))
           ELSE processing_status
    /\ IF HasVideo(db, video_id)
       THEN /\ db' = AddTier(db, video_id, optimal_qualities[other.tier + 1],
                             ProcessQualityWithSegments(
                                 optimal_qualities[other.tier + 1],
                                 EncoderOutput(upload.duration, upload.file_sizes)))
            /\ session' = db'
            /\ other' = [other EXCEPT !.tier = @ + 1]
       ELSE /\ other' = [other EXCEPT !.pc = "except"]
            /\ UNCHANGED <<session, db>>
    /\ UNCHANGED notOtherRun
    /\ UNCHANGED <<upload, entry, pc, tier, optimal_qualities, segments, new_video, video_id,
                   transcode_log>>

\* The second call's transcode raises after the progress update.
OtherTranscodeFails ==
    /\ other.pc = "loop" /\ other.tier < Len(optimal_qualities)
    /\ processing_status' =
           IF video_id \in DOMAIN processing_status
           THEN UpdateProgress(processing_status, video_id, other.tier,
                               Len(optimal_qualities))
           ELSE processing_status
    /\ other' = [other EXCEPT !.pc = "except"]
    /\ UNCHANGED notOtherRun
    /\ UNCHANGED <<upload, entry, pc, tier, optimal_qualities, segments, new_video, video_id,
                   session, db, transcode_log>>

\* The second call after its loop.
OtherMarkCompleted ==
    /\ other.pc = "loop" /\ other.tier = Len(optimal_qualities)
    /\ db' = SetVideoStatus(db, video_id, "completed")
    /\ session' = db'
    /\ processing_status' =
           IF video_id \in DOMAIN processing_status
           THEN UpdateCompleted(processing_status, video_id)
           ELSE processing_status
    /\ other' = [other EXCEPT !.pc = "returned"]
    /\ UNCHANGED notOtherRun
    /\ UNCHANGED <<upload, entry, pc, tier, optimal_qualities, segments, new_video, video_id,
                   transcode_log>>

\* The second call's except block.
OtherExceptHandler ==
    /\ other.pc = "except"
    /\ db' = SetVideoStatus(db, video_id, "failed")
    /\ session' = db'
    /\ processing_status' =
           IF video_id \in DOMAIN processing_status
           THEN UpdateFailed(processing_status, video_id)
           ELSE processing_status
    /\ other' = [other EXCEPT !.pc = "returned"]
    /\ UNCHANGED notOtherRun
    /\ UNCHANGED <<upload, entry, pc, tier, optimal_qualities, segments, new_video, video_id,
                   transcode_log>>

NextConcurrent ==
    \/ Next
    \/ OtherCall
    \/ OtherPrepare
    \/ OtherStoreTier
    \/ OtherTranscodeFails
    \/ OtherMarkCompleted
    \/ OtherExceptHandler

SpecConcurrent == Init /\ [][NextConcurrent]_vars

\* ------------------------------------------- the segmenter on long sources

\* Durations of short sources, and of the sources cut into the most files.
SegmenterDurations ==
    (1..(MaxShortCount * SEGMENT_DURATION))
    \cup {n * SEGMENT_DURATION : n \in (MaxSegmentCount - 2)..MaxSegmentCount}

InitSegmenter ==
    /\ IdleAnalyzer /\ IdleAuto /\ IdleStream /\ IdleHost
    /\ \E d \in SegmenterDurations :
           upload = [IdleUpload EXCEPT
                        !.duration = d, !.frame_count = d * 30,
                        !.file_sizes = [k \in 1..EncoderSegmentCount(d) |-> 1]]
    /\ entry = "none" /\ pc = "idle" /\ tier = 0
    /\ optimal_qualities = <<>> /\ segments = <<>>
    /\ new_video = "unbound" /\ video_id = "" /\ transcode_log = <<>>
    /\ processing_status = NoStatus
    /\ session = EmptyStore /\ db = EmptyStore

\* One call of _process_quality_with_segments whose encoder exits with status 0.
SegmentTier(quality) ==
    /\ pc = "idle" /\ segments = <<>>
    /\ segments' = ProcessQualityWithSegments(
                       quality, EncoderOutput(upload.duration, upload.file_sizes))
    /\ UNCHANGED notPipeline
    /\ UNCHANGED <<upload, entry, pc, tier, optimal_qualities, new_video, video_id,
                   session, db, processing_status, transcode_log>>

NextSegmenter == \E quality \in {"144p", "240p"} : SegmentTier(quality)

SpecSegmenter == InitSegmenter /\ [][NextSegmenter]_vars

\* ------------------------------------------------------------------ claims

\* The committed processing_status of the uploaded video, "absent" while no
\* Video row is committed.
CommittedStatus(store) ==
    IF HasVideo(store, TheVideoId)
    THEN (CHOOSE v \in store.videos : v.id = TheVideoId).processing_status
    ELSE "absent"

SegmentsOf(store, q) == {s \in store.segments : s.video_quality_id = q.id}

SomeTierSucceeded == \E k \in 1..Len(transcode_log) : transcode_log[k].ok

SomeTierFailed == \E k \in 1..Len(transcode_log) : ~transcode_log[k].ok

\* C1: a job with at least two tiers in which one tier's transcode succeeded and
\* another tier's transcode raised or timed out ends with the committed
\* Video.processing_status = completed, not failed.
PartialFailureEndsCompleted ==
    (JobEnded /\ Len(optimal_qualities) >= 2 /\ SomeTierSucceeded /\ SomeTierFailed)
        => CommittedStatus(db) = "completed"

\* C2: the committed Video.processing_status changes only from processing to
\* completed or from processing to failed; once completed or failed it never
\* changes again.
StatusOnlyLeavesProcessing ==
    [][\/ CommittedStatus(db') = CommittedStatus(db)
       \/ CommittedStatus(db) = "absent"
       \/ /\ CommittedStatus(db) = "processing"
          /\ CommittedStatus(db') \in {"completed", "failed"}]_vars

\* C7: when the source duration is no multiple of 4, the final stored segment of
\* every tier ends at the source duration and lasts duration - start_time <= 4,
\* and every other segment lasts end_time - start_time = 4.
FinalSegmentTruncated ==
    \A q \in db.qualities :
        upload.duration % SEGMENT_DURATION # 0 =>
            \A s \in SegmentsOf(db, q) :
                IF \A t \in SegmentsOf(db, q) : t.segment_index <= s.segment_index
                THEN /\ s.end_time = upload.duration
                     /\ s.duration = upload.duration - s.start_time
                     /\ s.duration <= SEGMENT_DURATION
                ELSE s.end_time - s.start_time = SEGMENT_DURATION

\* C8: the VideoSegment rows of every stored VideoQuality carry the indices
\* 0..N-1, each exactly once, N being the number of files the encoder produced
\* for the tier, and segment i starts at 4*i.
SegmentIndicesContiguous ==
    \A store \in {session, db} : \A q \in store.qualities :
        LET n == Cardinality(EncoderOutput(upload.duration, upload.file_sizes))
            segs == SegmentsOf(store, q)
        IN  /\ Cardinality(segs) = n
            /\ {s.segment_index : s \in segs} = 0..(n - 1)
            /\ \A s \in segs : s.start_time = SEGMENT_DURATION * s.segment_index

\* C8's case: a tier with three segments is committed.
ThreeSegmentTierCommitted ==
    \E q \in db.qualities : Cardinality(SegmentsOf(db, q)) = 3

\* C6: every tier _determine_optimal_qualities returns has at most the source's
\* pixel count, the fallback tier of a source below 256x144 included.
NoUpscaling ==
    \A i \in 1..Len(optimal) :
        TargetPixels(optimal[i]) <= source.width * source.height

\* C9: with the available qualities and the user-agent fixed, bandwidth hints
\* b1 <= b2 give recommendations r1, r2 with r2 of quality at least r1's.
BandwidthMonotone ==
    \A i \in 1..Len(detections) : \A j \in 1..Len(detections) :
        (/\ detections[i].bandwidth_hint # NoHint
         /\ detections[j].bandwidth_hint # NoHint
         /\ detections[i].bandwidth_hint[1] <= detections[j].bandwidth_hint[1])
            => QualityPriority(detections[j].recommended)
                   <= QualityPriority(detections[i].recommended)

\* The available tiers at or below the bracket tier of a bandwidth.
AtOrBelowBracket(kbps) ==
    {q \in SeqToSet(available_qualities) :
        QualityPriority(q) >= QualityPriority(BandwidthTarget(kbps))}

\* C10: a supplied bandwidth hint (0 included) with an available tier at or below
\* its bracket tier gets the highest-quality such tier, whatever the user-agent.
HintPicksHighestAtOrBelowBracket ==
    \A i \in 1..Len(detections) :
        LET d == detections[i]
        IN  (d.bandwidth_hint # NoHint /\ AtOrBelowBracket(d.bandwidth_hint[1]) # {})
                => /\ d.recommended \in AtOrBelowBracket(d.bandwidth_hint[1])
                   /\ \A q \in AtOrBelowBracket(d.bandwidth_hint[1]) :
                          QualityPriority(d.recommended) <= QualityPriority(q)

\* ------------------------------------------------ claims on the endpoints

\* The answered request addressed something the store holds: the video, and for
\* the segment endpoint a stored segment, for the auto endpoint a stored tier.
AnsweredStoredTarget ==
    /\ response.endpoint \in {"manifest", "segment", "auto"}
    /\ response.video_id = TheVideoId
    /\ response.endpoint = "segment" =>
           MatchingSegments(db, TheVideoId, response.quality, response.segment_index) # {}
    /\ response.endpoint = "auto" => QualitiesOf(db, TheVideoId) # {}

\* C3: for a private video, the manifest, segment and auto-quality endpoints each
\* answer 403 to every requester other than the owner and succeed for the owner.
PrivateVideoOwnerOnly ==
    (AnsweredStoredTarget /\ ~VideoOf(db, TheVideoId).is_public) =>
        IF response.requester = VideoOf(db, TheVideoId).user_id
        THEN response.status \in {200, 206}
        ELSE response.status = 403

\* The bytes of the one segment the range requests address.
AddressedData ==
    (CHOOSE s \in MatchingSegments(db, TheVideoId, "144p", 0) : TRUE).segment_data

\* The header 'bytes=a-b' for one-digit a and b.
FormatRange(a, b) == <<"bytes=", DigitChars[a + 1], "-", DigitChars[b + 1]>>

\* C4: a Range header bytes=a-b with 0 <= a <= b < S on a segment of S bytes is
\* answered 206 with Content-Range 'bytes a-b/S', Accept-Ranges 'bytes' and
\* exactly the bytes at offsets a..b; no Range header is answered 200 with all
\* S bytes.
RangeServedExactly ==
    response.endpoint = "segment" =>
        LET S == Len(AddressedData)
        IN  /\ \A a, b \in 0..(S - 1) :
                  (a <= b /\ response.range = FormatRange(a, b)) =>
                      /\ response.status = 206
                      /\ response.content_range =
                             <<"bytes ", DigitChars[a + 1], "-", DigitChars[b + 1],
                               "/", DigitChars[S + 1]>>
                      /\ response.accept_ranges = "bytes"
                      /\ response.body = [j \in 1..(b - a + 1) |-> AddressedData[a + j]]
            /\ response.range = <<>> =>
                  response.status = 200 /\ response.body = AddressedData

\* bytes=1-2 on a three-byte segment was answered with its last two bytes.
MiddleRangeServed ==
    /\ response.endpoint = "segment"
    /\ Len(AddressedData) = 3
    /\ response.range = FormatRange(1, 2)
    /\ response.status = 206
    /\ response.body = <<AddressedData[2], AddressedData[3]>>

\* What is left of the header once the unit is taken off has one '-' and
\* otherwise digits only: a (possibly empty) number on each side.
Dashes(text) == {i \in 1..Len(text) : text[i] = "-"}

HasBounds(range) ==
    LET text == RemoveUnit(range)
    IN  /\ Cardinality(Dashes(text)) = 1
        /\ \A i \in 1..Len(text) : text[i] = "-" \/ IsDigit(text[i])

Malformed(range) == range # <<>> /\ ~HasBounds(range)

RequestedStart(range) ==
    LET text == RemoveUnit(range)
        dash == CHOOSE i \in Dashes(text) : TRUE
    IN  IF dash = 1 THEN 0 ELSE IntOf(SubSeq(text, 1, dash - 1))

RequestedEnd(range, S) ==
    LET text == RemoveUnit(range)
        dash == CHOOSE i \in Dashes(text) : TRUE
    IN  IF dash = Len(text) THEN S - 1 ELSE IntOf(SubSeq(text, dash + 1, Len(text)))

OutOfBounds(range, S) ==
    /\ range # <<>> /\ HasBounds(range)
    /\ \/ RequestedStart(range) >= S
       \/ RequestedEnd(range, S) >= S
       \/ RequestedStart(range) > RequestedEnd(range, S)

EveryTierTranscoded == Len(transcode_log) = Len(optimal_qualities)

\* C11: when the transcode of one tier fails or times out, the pipeline still
\* transcodes every remaining tier: a job that has ended after a tier failure
\* has handed every tier of optimal_qualities to the encoder.
TierFailureSparesLaterTiers ==
    (JobEnded /\ SomeTierFailed) => EveryTierTranscoded

\* The committed store holds the tier's VideoQuality row and all of the
\* segments the encoder produced for it.
TierCommitted(quality) ==
    \E q \in db.qualities :
        /\ q.quality = quality
        /\ Cardinality(SegmentsOf(db, q)) =
               Cardinality(EncoderOutput(upload.duration, upload.file_sizes))

\* C12: a tier whose rows were stored before a later tier's transcode failed is
\* still in the data store, with all its segments, after the job has ended.
EarlierTiersSurviveFailure ==
    JobEnded =>
        \A k \in 1..Len(transcode_log) :
            (transcode_log[k].ok /\ \E j \in (k + 1)..Len(transcode_log) :
                                        ~transcode_log[j].ok)
                => TierCommitted(transcode_log[k].quality)

\* process_video_complete has ended after 144p was stored and 240p failed.
SecondTierFailedAfterFirstStored ==
    /\ entry = "complete" /\ JobEnded
    /\ Len(transcode_log) = 2
    /\ transcode_log[1].ok /\ ~transcode_log[2].ok
    /\ TierCommitted(transcode_log[1].quality)

\* C13: if every transcode of a job fails, the job ends with
\* Video.processing_status = failed and with no VideoQuality and no VideoSegment
\* row for the video.
AllTiersFailedEndsFailed ==
    (JobEnded /\ transcode_log # <<>> /\ ~SomeTierSucceeded) =>
        /\ CommittedStatus(db) = "failed"
        /\ db.qualities = {}
        /\ db.segments = {}

\* A job with a single tier has ended after that tier's transcode failed.
OnlyTierFailed ==
    /\ JobEnded
    /\ Len(optimal_qualities) = 1
    /\ Len(transcode_log) = 1 /\ ~transcode_log[1].ok
    /\ CommittedStatus(db) = "failed"

\* C14: each tier's VideoQuality row and all its VideoSegment rows are committed
\* as one unit before the next tier's transcode starts: while tier k+1 is being
\* transcoded the committed store, which is what another session reads, holds
\* all rows of tiers 1..k, and it never holds a VideoQuality with only part of
\* its segments.
TierCommittedBeforeNextTranscode ==
    /\ pc = "transcode" =>
           \A k \in 1..tier : TierCommitted(optimal_qualities[k])
    /\ \A q \in db.qualities :
           Cardinality(SegmentsOf(db, q)) = q.total_segments

\* C15: create_video answers with the video id as soon as the initial Video row
\* exists: at the moment of the answer the video's committed status is
\* processing and no tier has been transcoded yet.
RespondsBeforeTranscoding ==
    pc = "responded" =>
        /\ CommittedStatus(db) = "processing"
        /\ transcode_log = <<>>

\* ------------------------------------- claims on the endpoints' answers

\* C16: for an identified requester, the manifest, segment and auto-quality
\* endpoints each answer 404 for an unknown video id, and the segment endpoint
\* answers 404 for a quality the video does not have and for a segment index
\* that is not stored.
UnknownTargetsNotFound ==
    (response.endpoint \in {"manifest", "segment", "auto"}
        /\ response.requester \in Users) =>
        /\ ~HasVideo(db, response.video_id) => response.status = 404
        /\ (response.endpoint = "segment"
              /\ MatchingSegments(db, response.video_id, response.quality,
                                  response.segment_index) = {})
               => response.status = 404

\* The position of a tier in the fixed table, 144p first.
TablePosition(quality) == CHOOSE i \in 1..Len(PresetOrder) : PresetOrder[i] = quality

\* The manifest lists the tiers in table order and each tier's segments by index.
ManifestAscending(manifest) ==
    /\ \A i, j \in 1..Len(manifest) :
           i < j => TablePosition(manifest[i].quality) < TablePosition(manifest[j].quality)
    /\ \A i \in 1..Len(manifest) :
           \A k, l \in 1..Len(manifest[i].segments) :
               k < l => manifest[i].segments[k].index < manifest[i].segments[l].index

ManifestServed(answer) == answer.endpoint = "manifest" /\ answer.status = 200

\* C17: every manifest lists the qualities in ascending tier order and each
\* quality's segments in ascending segment_index order, and two manifest
\* requests for the same unchanged video get the same lists in the same order,
\* whatever order the store returns the rows in.
ManifestOrderFixed ==
    [][ManifestServed(response') =>
           /\ ManifestAscending(response'.manifest)
           /\ (ManifestServed(response) /\ response.video_id = response'.video_id)
                  => response'.manifest = response.manifest]_vars

\* ------------------------------------------- claims on the tier selection

\* The tiers of the table that fit into a source of the given frame size.
FittingTiers(width, height) ==
    {i \in 1..Len(PresetOrder) :
        PresetResolution(PresetOrder[i])[1] * PresetResolution(PresetOrder[i])[2]
            <= width * height}

\* C18: _determine_optimal_qualities(w, h) returns exactly the tiers of the table
\* with width*height <= w*h, in table order, when there is such a tier, and a
\* list of exactly one tier otherwise; the list is never empty and holds no
\* tier twice.
SelectsExactlyFittingTiers ==
    optimal # <<>> =>
        LET fitting == FittingTiers(source.width, source.height)
        IN  /\ fitting # {} =>
                  /\ SeqToSet(optimal) = {PresetOrder[i] : i \in fitting}
                  /\ \A i, j \in 1..Len(optimal) :
                         i < j => TablePosition(optimal[i]) < TablePosition(optimal[j])
            /\ fitting = {} => Len(optimal) = 1
            /\ \A i, j \in 1..Len(optimal) : i # j => optimal[i] # optimal[j]

\* A 640x360 source, exactly the frame of the 360p tier, got 144p, 240p and 360p.
SourceAtTierBoundarySelected ==
    /\ source = [width |-> 640, height |-> 360]
    /\ optimal = <<"144p", "240p", "360p">>

\* ------------------------------------------ claims on rejected uploads

\* process_video_complete has ended before any tier was handed to the encoder:
\* the analyzer or the thumbnail generator failed.
FailedBeforeTranscoding == entry = "complete" /\ JobEnded /\ transcode_log = <<>>

\* C19: if the analyzer or the thumbnail generator fails, the upload is rejected
\* with an error, no Video, VideoQuality or VideoSegment row exists afterwards,
\* in the session or committed, and the status map has no entry.
EarlyFailureLeavesNothing ==
    FailedBeforeTranscoding =>
        /\ pc \in {"raised", "rejected"}
        /\ db = EmptyStore
        /\ session = EmptyStore
        /\ processing_status = NoStatus

\* The thumbnail generator failed after a successful analysis, and the upload
\* endpoint has answered with the error.
ThumbnailFailureRejected ==
    /\ FailedBeforeTranscoding
    /\ pc = "rejected"
    /\ optimal_qualities # <<>>

\* C20: an upload whose source reports a frame rate of 0 is rejected by the
\* analyzer: process_video_complete never gets past analyze_video for it, adds
\* no Video row and transcodes no tier.
ZeroFrameRateRejected ==
    (entry = "complete" /\ upload.fps = 0) =>
        /\ pc \in {"start", "except", "raised", "rejected"}
        /\ session.videos = {}
        /\ db.videos = {}
        /\ transcode_log = <<>>

\* --------------------------------------- claims on the recommended tier

\* C23: whatever the bandwidth hint and the user-agent, when the video has at
\* least one VideoQuality row the auto-quality endpoint recommends one of the
\* video's stored tiers.
RecommendsStoredTier ==
    (response.endpoint = "auto" /\ response.status = 200) =>
        \E q \in QualitiesOf(db, response.video_id) : q.quality = response.recommended

\* A hint in the highest bracket was answered for a video that has no such tier.
HighHintAnsweredWithStoredTier ==
    /\ response.endpoint = "auto" /\ response.status = 200
    /\ response.bandwidth = <<50000>>
    /\ response.recommended # BandwidthTarget(50000)

\* ------------------------------------------- claims on the status map

\* C26: once a pipeline run has ended, get_processing_status reports completed
\* for the video only if the store holds a committed Video row for it whose
\* processing_status is completed.
ReportedCompletedIsCommitted ==
    (JobEnded /\ GetProcessingStatus(processing_status, TheVideoId) = "completed")
        => CommittedStatus(db) = "completed"

\* The sum of segment_size over a set of VideoSegment rows.
RECURSIVE TotalSegmentSize(_)
TotalSegmentSize(rows) ==
    IF rows = {} THEN 0
    ELSE LET s == CHOOSE r \in rows : TRUE
         IN  s.segment_size + TotalSegmentSize(rows \ {s})

QualityTotalsMatch(store) ==
    \A q \in store.qualities :
        /\ q.total_segments = Cardinality(SegmentsOf(store, q))
        /\ q.total_size = TotalSegmentSize(SegmentsOf(store, q))

\* C27: for every VideoQuality row, committed or in the session, during and after
\* any pipeline run, total_segments is the number of its VideoSegment rows and
\* total_size the sum of their segment_size.
QualityTotalsAreExact == QualityTotalsMatch(db) /\ QualityTotalsMatch(session)

\* A failed run has left a committed tier of three segments of five bytes in all.
FailedRunLeftCountedTier ==
    /\ JobEnded /\ SomeTierFailed
    /\ \E q \in db.qualities : q.total_segments = 3 /\ q.total_size = 5

\* The status-map entry of the running process_video_complete.
EntryOfRun == processing_status[TheVideoId]

HasEntryOfRun == entry = "complete" /\ TheVideoId \in DOMAIN processing_status

\* C28: during a run of process_video_complete the entry's progress stays in
\* 0..100 and never decreases, qualities_completed is a prefix of
\* optimal_qualities, and status completed comes with progress 100 and with
\* qualities_completed equal to all of optimal_qualities.
ProgressIsMonotone ==
    /\ [](HasEntryOfRun =>
            /\ EntryOfRun.progress \in 0..100
            /\ Len(EntryOfRun.qualities_completed) <= Len(optimal_qualities)
            /\ EntryOfRun.qualities_completed =
                   Prefix(optimal_qualities, Len(EntryOfRun.qualities_completed))
            /\ EntryOfRun.status = "completed" =>
                   /\ EntryOfRun.progress = 100
                   /\ EntryOfRun.qualities_completed = optimal_qualities)
    /\ [][(HasEntryOfRun /\ HasEntryOfRun') =>
             EntryOfRun'.progress >= EntryOfRun.progress]_vars

\* The second of two tiers is being transcoded at progress 50.
SecondTierInProgress ==
    /\ HasEntryOfRun
    /\ pc = "transcode"
    /\ Len(optimal_qualities) = 2
    /\ EntryOfRun.progress = 50
    /\ EntryOfRun.qualities_completed = <<optimal_qualities[1]>>

\* The entries of a status map that ended before the hour `cutoff`.
EndedBefore(map, cutoff) ==
    {v \in DOMAIN map : map[v].end_time # <<>> /\ map[v].end_time[1] < cutoff}

\* C30: a call cleanup_old_status(max_age_hours) removes exactly the entries
\* whose end_time is earlier than now minus max_age_hours, leaves every other
\* entry as it was, and never removes an entry without an end_time.
CleanupRemovesExactlyOld ==
    [][max_age_hours' # <<>> =>
        LET cutoff == clock - max_age_hours'[1]
        IN  /\ DOMAIN processing_status' =
                   DOMAIN processing_status \ EndedBefore(processing_status, cutoff)
            /\ \A v \in DOMAIN processing_status' :
                   processing_status'[v] = processing_status[v]
            /\ \A v \in DOMAIN processing_status :
                   processing_status[v].end_time = <<>> =>
                       v \in DOMAIN processing_status']_vars

\* A cleanup with max age 1 at hour 3 kept a job still processing and a job
\* that ended exactly at the cutoff hour 2, and nothing else.
CleanupKeptEntryAtCutoff ==
    /\ max_age_hours = <<1>>
    /\ clock = 3
    /\ DOMAIN processing_status = {"v1", "v2"}
    /\ processing_status["v1"].end_time = <<>>
    /\ processing_status["v2"].end_time = <<2>>

\* Every VideoSegment has its VideoQuality and every VideoQuality its Video.
NoOrphans(store) ==
    /\ \A g \in store.segments : \E q \in store.qualities : q.id = g.video_quality_id
    /\ \A q \in store.qualities : HasVideo(store, q.video_id)

\* A delete_video request is answered in this step.
DeleteAnswered == response' # response /\ response'.endpoint = "delete_video"

\* C21: in the committed store every VideoSegment belongs to an existing
\* VideoQuality and every VideoQuality to an existing Video; a delete_video that
\* succeeds leaves no VideoQuality or VideoSegment of the video; a delete_video
\* by anyone but the owner is refused and removes nothing.
DeleteKeepsOwnershipTree ==
    /\ [](NoOrphans(db))
    /\ [][DeleteAnswered =>
            /\ response'.status = 200 =>
                   /\ HasVideo(db, response'.video_id)
                   /\ VideoOf(db, response'.video_id).user_id = response'.requester
                   /\ ~HasVideo(db', response'.video_id)
                   /\ QualitiesOf(db', response'.video_id) = {}
                   /\ db'.segments = {}
            /\ (HasVideo(db, response'.video_id)
                  /\ VideoOf(db, response'.video_id).user_id # response'.requester) =>
                   /\ response'.status \in {401, 403, 404}
                   /\ db' = db]_vars

\* The owner deleted the video after the background run had committed a tier,
\* and nothing of it is left.
OwnerDeletedStoredTier ==
    /\ response.endpoint = "delete_video" /\ response.status = 200
    /\ response.requester = "u1" /\ response.video_id = TheVideoId
    /\ entry = "background" /\ tier >= 1
    /\ db = EmptyStore

\* C22: the committed store never holds two VideoQuality rows with the same
\* (video_id, quality).
TierStoredOncePerVideo ==
    \A q1, q2 \in db.qualities :
        (q1.video_id = q2.video_id /\ q1.quality = q2.quality) => q1 = q2

\* The first call for the video id is between its start and its return.
FirstRunActive == entry = "background" /\ pc # "returned"

\* The second call for the video id is between its start and its return.
SecondRunActive == other.pc \notin {"none", "returned"}

\* C24: no two pipeline runs for the same video id execute at the same time.
OneRunPerVideoId == ~(FirstRunActive /\ SecondRunActive)

\* C25: the segment listed at place i has segment_index i - 1 and holds the
\* bytes of the encoder's file number i - 1, its i-th in playback order.
SegmentsInPlaybackOrder ==
    \A i \in 1..Len(segments) :
        /\ segments[i].segment_index = i - 1
        /\ \A j \in 1..Len(segments[i].segment_data) :
               segments[i].segment_data[j] = i - 1

\* The answer went to somebody other than the owner of a stored private video.
AnsweredNonOwnerOfPrivate ==
    /\ response.endpoint \in {"segment", "manifest", "auto", "thumbnail", "media_thumbnail"}
    /\ HasVideo(db, response.video_id)
    /\ ~VideoOf(db, response.video_id).is_public
    /\ VideoOf(db, response.video_id).user_id # response.requester

\* C29: an answer to anybody but the owner of a private video carries none of
\* the video's stored bytes, segment or thumbnail, so it is the same whatever
\* those bytes are.
PrivateBytesStayWithOwner ==
    AnsweredNonOwnerOfPrivate => response.body = <<>>

====
